---- MODULE Spec2Model ----
(***************************************************************************)
(* Laplace-Beltrami spectrum of a triangle mesh                            *)
(* (mindboggle/shapes/laplace_beltrami/lbo.py).                            *)
(*                                                                         *)
(* One call of geometric_laplacian or fem_laplacian is a sequential run    *)
(* of statements; pc is the statement about to run.  Numbers are exact     *)
(* rationals <<numerator, denominator>>.  The input meshes have integer    *)
(* edge lengths, so that Heron's formula is exact in binary floating       *)
(* point too: on these inputs the rational arithmetic below and the        *)
(* program's float arithmetic produce the same areas.                      *)
(***************************************************************************)
EXTENDS Integers, Sequences, FiniteSets

VARIABLES
    pc,              \* the statement about to run
    pipeline,        \* "geometric" or "fem": the entry point that was called
    Nodes,           \* the caller's vertex array, 0-based
    Faces,           \* the caller's face array (a sequence of index triples)
    W,               \* local W
    Wsupplied,       \* history: W as cotangent_kernel returned it
    Neighbor,        \* local Neighbor
    V,               \* local V
    A,               \* local A (stiffness matrix)
    Area,            \* local Area
    Faces_at_Nodes,  \* local Faces_at_Nodes
    faces_at_edges,  \* local faces_at_edges (fem)
    edges,           \* local edges (fem)
    D,               \* local D (geometric mass matrix)
    P,               \* local P (fem)
    Q,               \* local Q (fem)
    B,               \* local B (fem mass matrix)
    solver,          \* history: the arguments and the return of the eigs call
    calls,           \* history: the collaborators invoked, in order
    result,          \* the value the call returned
    error            \* the failure the call ended in, "" when none

vars == <<pc, pipeline, Nodes, Faces, W, Wsupplied, Neighbor, V, A, Area,
          Faces_at_Nodes, faces_at_edges, edges, D, P, Q, B, solver, calls,
          result, error>>

----------------------------------------------------------------------------
(* Bounds of the model and constants of the program *)

MaxNodes == 6
MaxFaces == 4
NumWeightSeeds == 2
MinNodes == 5
K == 3
SentinelLen == 5

----------------------------------------------------------------------------
(* Exact rational arithmetic *)

Abs(x) == IF x < 0 THEN -x ELSE x

RECURSIVE GCD(_, _)
GCD(a, b) == IF b = 0 THEN a ELSE GCD(b, a % b)

\* denominator 0 marks the IEEE values that are no numbers: <<0,0>> is NaN,
\* <<1,0>> is +inf
NaN == <<0, 0>>
Inf == <<1, 0>>

Norm(n, d) ==
    IF d = 0 THEN <<IF n > 0 THEN 1 ELSE IF n < 0 THEN -1 ELSE 0, 0>>
    ELSE LET g == GCD(Abs(n), Abs(d))
             s == IF d < 0 THEN -1 ELSE 1
         IN  <<(s * n) \div g, (s * d) \div g>>

R(n) == <<n, 1>>
Zero == R(0)
RAdd(x, y) == Norm(x[1] * y[2] + y[1] * x[2], x[2] * y[2])
RSub(x, y) == Norm(x[1] * y[2] - y[1] * x[2], x[2] * y[2])
RMul(x, y) == Norm(x[1] * y[1], x[2] * y[2])
RDivInt(x, k) == Norm(x[1], x[2] * k)
RRecip(x) == IF x[1] = 0 THEN Inf ELSE Norm(x[2], x[1])

\* floor of the square root; exact on perfect squares
ISqrt(n) == CHOOSE r \in 0..n : r * r <= n /\ (r + 1) * (r + 1) > n

\* np.sqrt: NaN on a negative argument (a warning, no exception)
RSqrt(x) == IF x[1] < 0 THEN NaN ELSE Norm(ISqrt(x[1]), ISqrt(x[2]))

\* Python's sum() over the values f[x], x in S
RECURSIVE SumSet(_, _)
SumSet(S, f) ==
    IF S = {} THEN Zero
    ELSE LET x == CHOOSE y \in S : TRUE
         IN  RAdd(f[x], SumSet(S \ {x}, f))

----------------------------------------------------------------------------
(* Matrices: scipy's sparse matrices keep the assigned entries only, a     *)
(* numpy array keeps them all.                                             *)

NoMatrix == [rep |-> "none", n |-> 0]

Sparse(n, nz) == [rep |-> "sparse", n |-> n, nz |-> nz]

Idx(n) == 0..(n - 1)

At(M, i, j) ==
    IF M.rep = "dense" THEN M.a[i][j]
    ELSE IF M.rep = "sparse" /\ <<i, j>> \in DOMAIN M.nz THEN M.nz[<<i, j>>]
    ELSE Zero

\* lil_matrix((n, n))
lil_matrix(n) == Sparse(n, [e \in {} |-> Zero])

\* M.setdiag(v)
setdiag(M, v) ==
    Sparse(M.n, [e \in DOMAIN M.nz \cup {<<i, i>> : i \in Idx(M.n)} |->
                    IF e[1] = e[2] THEN v[e[1]] ELSE M.nz[e]])

\* M / k for a sparse matrix M and a number k
MatDiv(M, k) == Sparse(M.n, [e \in DOMAIN M.nz |-> RDivInt(M.nz[e], k)])

\* X - Y and X + Y for sparse matrices
MatSub(X, Y) ==
    Sparse(X.n, [e \in DOMAIN X.nz \cup DOMAIN Y.nz |->
                    RSub(At(X, e[1], e[2]), At(Y, e[1], e[2]))])

MatAdd(X, Y) ==
    Sparse(X.n, [e \in DOMAIN X.nz \cup DOMAIN Y.nz |->
                    RAdd(At(X, e[1], e[2]), At(Y, e[1], e[2]))])

\* mutant of toarray: the diagonal alone is copied
toarray_DiagonalOnly(M) ==
    [rep |-> "dense", n |-> M.n,
     a |-> [i \in Idx(M.n) |->
              [j \in Idx(M.n) |-> IF i = j THEN At(M, i, j) ELSE Zero]]]

\* M.toarray()
toarray(M) ==
    [rep |-> "dense", n |-> M.n,
     a |-> [i \in Idx(M.n) |-> [j \in Idx(M.n) |-> At(M, i, j)]]]

----------------------------------------------------------------------------
(* The inputs: a pool of lattice points and of triangles over them whose   *)
(* edges have integer length.                                              *)

Coords ==
    <<  <<0, 0, 0>>, <<3, 0, 0>>, <<0, 4, 0>>, <<3, 4, 0>>,
        <<6, 0, 0>>, <<6, 4, 0>>, <<0, 0, 4>>, <<3, 0, 4>>  >>

\* the face <<0, 1, 4>> is degenerate: its three vertices are collinear
FacePool ==
    <<  <<0, 1, 2>>, <<1, 3, 2>>, <<1, 4, 3>>, <<0, 1, 4>>,
        <<0, 4, 3>>, <<4, 5, 3>>, <<2, 3, 5>>, <<0, 1, 6>>  >>

NodeArray(n) == [i \in Idx(n) |-> Coords[i + 1]]

RECURSIVE FaceArray(_)
FaceArray(S) ==
    IF S = {} THEN <<>>
    ELSE LET m == CHOOSE x \in S : \A y \in S : y <= x
         IN  Append(FaceArray(S \ {m}), FacePool[m])

FaceVertices(face) == {face[1], face[2], face[3]}

----------------------------------------------------------------------------
(* The collaborators in mindboggle.utils, by their contracts *)

\* the undirected edges of the mesh
MeshEdges(faces) ==
    UNION { { {faces[f][1], faces[f][2]}, {faces[f][2], faces[f][3]},
              {faces[f][1], faces[f][3]} } : f \in DOMAIN faces }

\* both orderings of every undirected edge
DirectedEdges(faces) ==
    { e \in UNION { FaceVertices(faces[f]) \X FaceVertices(faces[f]) :
                      f \in DOMAIN faces } : {e[1], e[2]} \in MeshEdges(faces) }

\* one of the weights a provider may give the edge {i, j}
WeightVal(seed, i, j) == (((i + j) * seed) % 4) - 1

\* mindboggle.utils.kernels.cotangent_kernel: a sparse symmetric matrix with
\* a zero diagonal and entries on mesh edges only; seed picks the weights
cotangent_kernel(nodes, faces, seed) ==
    Sparse(Cardinality(DOMAIN nodes),
           [e \in DirectedEdges(faces) |-> R(WeightVal(seed, e[1], e[2]))])

\* mindboggle.utils.mesh.find_neighbors
find_neighbors(faces, num_nodes) ==
    [i \in Idx(num_nodes) |->
        {j \in Idx(num_nodes) : j # i /\ {i, j} \in MeshEdges(faces)}]

\* mindboggle.utils.mesh.find_faces_at_vertices
find_faces_at_vertices(faces, num_nodes) ==
    [i \in Idx(num_nodes) |->
        {f \in DOMAIN faces : i \in FaceVertices(faces[f])}]

\* mindboggle.utils.mesh.find_faces_at_edges: keyed by the unordered pair,
\* so that either ordering finds the entry
find_faces_at_edges(faces) ==
    [e \in DirectedEdges(faces) |->
        {f \in DOMAIN faces : {e[1], e[2]} \subseteq FaceVertices(faces[f])}]

\* the orderings in which an enumerator may emit an undirected edge
EdgeOrders == {"ascending", "descending", "as in the first face"}

FirstFace(faces, e) ==
    CHOOSE f \in DOMAIN faces :
        /\ e \subseteq FaceVertices(faces[f])
        /\ \A g \in DOMAIN faces : e \subseteq FaceVertices(faces[g]) => f <= g

FacePairs(face) == {<<face[1], face[2]>>, <<face[2], face[3]>>, <<face[1], face[3]>>}

\* mindboggle.utils.mesh.find_edges: every undirected edge once, in the
\* ordering the enumerator uses
find_edges(faces, order) ==
    { d \in DirectedEdges(faces) :
        CASE order = "ascending" -> d[1] < d[2]
          [] order = "descending" -> d[1] > d[2]
          [] OTHER -> d \in FacePairs(faces[FirstFace(faces, {d[1], d[2]})]) }

----------------------------------------------------------------------------
(* lbo.py *)

VecSub(u, w) == <<u[1] - w[1], u[2] - w[2], u[3] - w[3]>>

\* np.linalg.norm of an integer 3-vector
norm(u) == R(ISqrt(u[1] * u[1] + u[2] * u[2] + u[3] * u[3]))

\* mutant of gen_V: the division by 3 is left out
gen_V_NoThird(Meshes, w, neighbor) ==
    LET num_nodes == w.n
        v == [i \in Idx(num_nodes) |->
                SumSet(neighbor[i], [j \in neighbor[i] |-> At(w, i, j)])]
    IN  setdiag(lil_matrix(num_nodes), v)

gen_V(Meshes, w, neighbor) ==
    LET num_nodes == w.n
        v == [i \in Idx(num_nodes) |->
                SumSet(neighbor[i], [j \in neighbor[i] |-> At(w, i, j)])]
    IN  MatDiv(setdiag(lil_matrix(num_nodes), v), 3)

\* mutant of TriangleArea: c is measured from Triangle[2] back to
\* Triangle[1] (an index slip), which is b again
TriangleArea_IndexSlip(nodes, Triangle) ==
    LET a == norm(VecSub(nodes[Triangle[1]], nodes[Triangle[2]]))
        b == norm(VecSub(nodes[Triangle[2]], nodes[Triangle[3]]))
        c == norm(VecSub(nodes[Triangle[3]], nodes[Triangle[2]]))
        s == RDivInt(RAdd(RAdd(a, b), c), 2)
    IN  RSqrt(RMul(RMul(RMul(s, RSub(s, a)), RSub(s, b)), RSub(s, c)))

\* the body of area()'s loop: Heron's formula for one triangle
TriangleArea(nodes, Triangle) ==
    LET a == norm(VecSub(nodes[Triangle[1]], nodes[Triangle[2]]))
        b == norm(VecSub(nodes[Triangle[2]], nodes[Triangle[3]]))
        c == norm(VecSub(nodes[Triangle[3]], nodes[Triangle[1]]))
        s == RDivInt(RAdd(RAdd(a, b), c), 2)
    IN  RSqrt(RMul(RMul(RMul(s, RSub(s, a)), RSub(s, b)), RSub(s, c)))

area(nodes, Meshes) ==
    [f \in DOMAIN Meshes |-> TriangleArea(nodes, Meshes[f])]

\* mutant of masses: D /= 3 is left out
masses_NoThird(nodes, Areas, faces_at_nodes) ==
    LET num_nodes == Cardinality(DOMAIN nodes)
        d == [i \in Idx(num_nodes) |->
                SumSet(faces_at_nodes[i], [j \in faces_at_nodes[i] |-> Areas[j]])]
    IN  setdiag(lil_matrix(num_nodes), d)

masses(nodes, Areas, faces_at_nodes) ==
    LET num_nodes == Cardinality(DOMAIN nodes)
        d == [i \in Idx(num_nodes) |->
                SumSet(faces_at_nodes[i], [j \in faces_at_nodes[i] |-> Areas[j]])]
    IN  MatDiv(setdiag(lil_matrix(num_nodes), d), 3)

\* mutant of gen_P: every entry is mirrored, P[j,i] = P[i,j]
gen_P_Mirrored(edgs, f_at_edges, area_, num_nodes) ==
    MatDiv(Sparse(num_nodes,
                  [e \in edgs \cup {<<d[2], d[1]>> : d \in edgs} |->
                     SumSet(f_at_edges[e], [face \in f_at_edges[e] |-> area_[face]])]),
           12)

gen_P(edgs, f_at_edges, area_, num_nodes) ==
    MatDiv(Sparse(num_nodes,
                  [e \in edgs |->
                     SumSet(f_at_edges[e], [face \in f_at_edges[e] |-> area_[face]])]),
           12)

gen_Q(edgs, f_at_edges, area_, num_nodes, neighbor, faces_at_nodes) ==
    LET q == [i \in Idx(num_nodes) |->
                SumSet(faces_at_nodes[i], [k \in faces_at_nodes[i] |-> area_[k]])]
    IN  MatDiv(setdiag(lil_matrix(num_nodes), q), 6)

\* W /= 2
HalfOf(w) == MatDiv(w, 2)

\* mutant of TooSmall: the threshold is off by one
TooSmall_OffByOne(num_nodes) == num_nodes < MinNodes - 1

\* if num_nodes < 5
TooSmall(num_nodes) == num_nodes < MinNodes

\* numpy.array([-1,-1,-1, -1, -1])
Sentinel == [k \in 1..SentinelLen |-> R(-1)]

\* mutant of Reciprocal: the raw eigenvalues are returned as they are
Reciprocal_Raw(eigenvalues) == eigenvalues

\* eigenvalues = 1/eigenvalues
Reciprocal(eigenvalues) ==
    [k \in DOMAIN eigenvalues |-> RRecip(eigenvalues[k])]

\* the raw eigenvalues the solver may return
EigVals == {R(2), Norm(-1, 2), Zero}

NoCall == [called |-> FALSE]

----------------------------------------------------------------------------
(* One call, statement by statement *)

Init ==
    /\ pc = "idle"
    /\ pipeline = "none"
    /\ Nodes = <<>>
    /\ Faces = <<>>
    /\ W = NoMatrix
    /\ Wsupplied = NoMatrix
    /\ Neighbor = <<>>
    /\ V = NoMatrix
    /\ A = NoMatrix
    /\ Area = <<>>
    /\ Faces_at_Nodes = <<>>
    /\ faces_at_edges = <<>>
    /\ edges = {}
    /\ D = NoMatrix
    /\ P = NoMatrix
    /\ Q = NoMatrix
    /\ B = NoMatrix
    /\ solver = NoCall
    /\ calls = <<>>
    /\ result = <<>>
    /\ error = ""

num_nodes == Cardinality(DOMAIN Nodes)

\* the locals a statement of the shared part leaves alone
FemLocals == <<faces_at_edges, edges, P, Q, B>>
Caller == <<pipeline, Nodes, Faces>>

\* the caller invokes geometric_laplacian(Nodes, Faces) or
\* fem_laplacian(Nodes, Faces); every local is still unset.  A mesh that
\* gets past the size guard indexes existing vertices only.
Call ==
    /\ pc = "idle"
    /\ \E p \in {"geometric", "fem"}, n \in 0..MaxNodes,
          S \in SUBSET (1..Len(FacePool)) :
          /\ Cardinality(S) <= MaxFaces
          /\ ~TooSmall(n) => \A f \in S : FaceVertices(FacePool[f]) \subseteq Idx(n)
          /\ pipeline' = p
          /\ Nodes' = NodeArray(n)
          /\ Faces' = FaceArray(S)
    /\ pc' = "guard"
    /\ UNCHANGED <<W, Wsupplied, Neighbor, V, A, Area, Faces_at_Nodes,
                   faces_at_edges, edges, D, P, Q, B, solver, calls, result,
                   error>>

\* the call is over (it returned or raised): its frame is dropped, none of
\* its locals outlives it
EndOfCall ==
    /\ pc \in {"done", "raised"}
    /\ pc' = "idle"
    /\ pipeline' = "none" /\ Nodes' = <<>> /\ Faces' = <<>>
    /\ W' = NoMatrix /\ Wsupplied' = NoMatrix /\ Neighbor' = <<>>
    /\ V' = NoMatrix /\ A' = NoMatrix /\ Area' = <<>>
    /\ Faces_at_Nodes' = <<>> /\ faces_at_edges' = <<>> /\ edges' = {}
    /\ D' = NoMatrix /\ P' = NoMatrix /\ Q' = NoMatrix /\ B' = NoMatrix
    /\ solver' = NoCall /\ calls' = <<>> /\ result' = <<>> /\ error' = ""

\* num_nodes = len(Nodes); if num_nodes < 5: print ...; return the sentinel
SmallMeshGuard ==
    /\ pc = "guard"
    /\ IF TooSmall(num_nodes)
       THEN /\ result' = Sentinel
            /\ pc' = "done"
       ELSE /\ result' = result
            /\ pc' = "kernel"
    /\ UNCHANGED <<Caller, W, Wsupplied, Neighbor, V, A, Area, Faces_at_Nodes,
                   FemLocals, D, solver, calls, error>>

\* W = mindboggle.utils.kernels.cotangent_kernel(Nodes, Faces)
CotangentKernel ==
    /\ pc = "kernel"
    /\ \E seed \in 1..NumWeightSeeds :
          /\ W' = cotangent_kernel(Nodes, Faces, seed)
          /\ Wsupplied' = W'
    /\ calls' = Append(calls, "cotangent_kernel")
    /\ pc' = "halve"
    /\ UNCHANGED <<Caller, Neighbor, V, A, Area, Faces_at_Nodes, FemLocals, D,
                   solver, result, error>>

\* W /= 2
HalveW ==
    /\ pc = "halve"
    /\ W' = HalfOf(W)
    /\ pc' = "neighbors"
    /\ UNCHANGED <<Caller, Wsupplied, Neighbor, V, A, Area, Faces_at_Nodes,
                   FemLocals, D, solver, calls, result, error>>

\* Neighbor = mindboggle.utils.mesh.find_neighbors(Faces, num_nodes)
FindNeighbors ==
    /\ pc = "neighbors"
    /\ Neighbor' = find_neighbors(Faces, num_nodes)
    /\ calls' = Append(calls, "find_neighbors")
    /\ pc' = "gen_V"
    /\ UNCHANGED <<Caller, W, Wsupplied, V, A, Area, Faces_at_Nodes, FemLocals,
                   D, solver, result, error>>

\* V = gen_V(Faces, W, Neighbor)
GenV ==
    /\ pc = "gen_V"
    /\ V' = gen_V(Faces, W, Neighbor)
    /\ pc' = "stiffness"
    /\ UNCHANGED <<Caller, W, Wsupplied, Neighbor, A, Area, Faces_at_Nodes,
                   FemLocals, D, solver, calls, result, error>>

\* A = V - W
Stiffness ==
    /\ pc = "stiffness"
    /\ A' = MatSub(V, W)
    /\ pc' = "area"
    /\ UNCHANGED <<Caller, W, Wsupplied, Neighbor, V, Area, Faces_at_Nodes,
                   FemLocals, D, solver, calls, result, error>>

\* Area = area(Nodes, Faces)
ComputeArea ==
    /\ pc = "area"
    /\ Area' = area(Nodes, Faces)
    /\ pc' = "faces_at_nodes"
    /\ UNCHANGED <<Caller, W, Wsupplied, Neighbor, V, A, Faces_at_Nodes,
                   FemLocals, D, solver, calls, result, error>>

\* Faces_at_Nodes = mindboggle.utils.mesh.find_faces_at_vertices(Faces, num_nodes)
FindFacesAtNodes ==
    /\ pc = "faces_at_nodes"
    /\ Faces_at_Nodes' = find_faces_at_vertices(Faces, num_nodes)
    /\ calls' = Append(calls, "find_faces_at_vertices")
    /\ pc' = IF pipeline = "geometric" THEN "masses" ELSE "faces_at_edges"
    /\ UNCHANGED <<Caller, W, Wsupplied, Neighbor, V, A, Area, FemLocals, D,
                   solver, result, error>>

\* geometric: D = masses(Nodes, Area, Faces_at_Nodes)
Masses ==
    /\ pc = "masses"
    /\ D' = masses(Nodes, Area, Faces_at_Nodes)
    /\ pc' = "D_toarray"
    /\ UNCHANGED <<Caller, W, Wsupplied, Neighbor, V, A, Area, Faces_at_Nodes,
                   FemLocals, solver, calls, result, error>>

\* geometric: D = D.toarray()
DToArray ==
    /\ pc = "D_toarray"
    /\ D' = toarray(D)
    /\ pc' = "eigs"
    /\ UNCHANGED <<Caller, W, Wsupplied, Neighbor, V, A, Area, Faces_at_Nodes,
                   FemLocals, solver, calls, result, error>>

\* fem: faces_at_edges = mindboggle.utils.mesh.find_faces_at_edges(Faces)
FindFacesAtEdges ==
    /\ pc = "faces_at_edges"
    /\ faces_at_edges' = find_faces_at_edges(Faces)
    /\ calls' = Append(calls, "find_faces_at_edges")
    /\ pc' = "edges"
    /\ UNCHANGED <<Caller, W, Wsupplied, Neighbor, V, A, Area, Faces_at_Nodes,
                   edges, P, Q, B, D, solver, result, error>>

\* fem: edges = mindboggle.utils.mesh.find_edges(Faces.tolist())
FindEdges ==
    /\ pc = "edges"
    /\ \E order \in EdgeOrders : edges' = find_edges(Faces, order)
    /\ calls' = Append(calls, "find_edges")
    /\ pc' = "gen_P"
    /\ UNCHANGED <<Caller, W, Wsupplied, Neighbor, V, A, Area, Faces_at_Nodes,
                   faces_at_edges, P, Q, B, D, solver, result, error>>

\* fem: P = gen_P(edges, faces_at_edges, Area, num_nodes)
GenP ==
    /\ pc = "gen_P"
    /\ P' = gen_P(edges, faces_at_edges, Area, num_nodes)
    /\ pc' = "gen_Q"
    /\ UNCHANGED <<Caller, W, Wsupplied, Neighbor, V, A, Area, Faces_at_Nodes,
                   faces_at_edges, edges, Q, B, D, solver, calls, result, error>>

\* fem: Q = gen_Q(edges, faces_at_edges, Area, num_nodes, Neighbor, Faces_at_Nodes)
GenQ ==
    /\ pc = "gen_Q"
    /\ Q' = gen_Q(edges, faces_at_edges, Area, num_nodes, Neighbor, Faces_at_Nodes)
    /\ pc' = "B"
    /\ UNCHANGED <<Caller, W, Wsupplied, Neighbor, V, A, Area, Faces_at_Nodes,
                   faces_at_edges, edges, P, B, D, solver, calls, result, error>>

\* fem: B = P + Q
SumB ==
    /\ pc = "B"
    /\ B' = MatAdd(P, Q)
    /\ pc' = "B_toarray"
    /\ UNCHANGED <<Caller, W, Wsupplied, Neighbor, V, A, Area, Faces_at_Nodes,
                   faces_at_edges, edges, P, Q, D, solver, calls, result, error>>

\* fem: B = B.toarray()
BToArray ==
    /\ pc = "B_toarray"
    /\ B' = toarray(B)
    /\ pc' = "A_toarray"
    /\ UNCHANGED <<Caller, W, Wsupplied, Neighbor, V, A, Area, Faces_at_Nodes,
                   faces_at_edges, edges, P, Q, D, solver, calls, result, error>>

\* fem: A = A.toarray()
AToArray ==
    /\ pc = "A_toarray"
    /\ A' = toarray(A)
    /\ pc' = "eigs"
    /\ UNCHANGED <<Caller, W, Wsupplied, Neighbor, V, Area, Faces_at_Nodes,
                   FemLocals, D, solver, calls, result, error>>

\* the mass matrix of the pipeline that was called
MassMatrix == IF pipeline = "geometric" THEN D ELSE B

\* eigenvalues, eigenvectors = eigs(A, k=3, M=D) (fem: M=B).  The solver is
\* scipy's: it returns k raw eigenvalues in an order of its own, or raises.
Eigs ==
    /\ pc = "eigs"
    /\ calls' = Append(calls, "eigs")
    /\ \/ \E raw \in [1..K -> EigVals] :
             /\ solver' = [called |-> TRUE, A |-> A, M |-> MassMatrix, k |-> K,
                           returned |-> raw]
             /\ pc' = "reciprocal"
             /\ error' = error
       \/ /\ solver' = [called |-> TRUE, A |-> A, M |-> MassMatrix, k |-> K,
                        returned |-> <<>>]
          /\ pc' = "raised"
          /\ error' = "eigs raised"
    /\ UNCHANGED <<Caller, W, Wsupplied, Neighbor, V, A, Area, Faces_at_Nodes,
                   FemLocals, D, result>>

\* eigenvalues = 1/eigenvalues; return eigenvalues
ReciprocalReturn ==
    /\ pc = "reciprocal"
    /\ result' = Reciprocal(solver.returned)
    /\ pc' = "done"
    /\ UNCHANGED <<Caller, W, Wsupplied, Neighbor, V, A, Area, Faces_at_Nodes,
                   FemLocals, D, solver, calls, error>>

Next ==
    \/ Call
    \/ SmallMeshGuard
    \/ CotangentKernel
    \/ HalveW
    \/ FindNeighbors
    \/ GenV
    \/ Stiffness
    \/ ComputeArea
    \/ FindFacesAtNodes
    \/ Masses
    \/ DToArray
    \/ FindFacesAtEdges
    \/ FindEdges
    \/ GenP
    \/ GenQ
    \/ SumB
    \/ BToArray
    \/ AToArray
    \/ Eigs
    \/ ReciprocalReturn
    \/ EndOfCall

Spec == Init /\ [][Next]_vars

----------------------------------------------------------------------------
(* Properties *)

AllIdx == Idx(num_nodes)

Unset(M) == M.rep = "none"

\* the two matrices hold the same number at every index pair
SameEntries(X, Y) ==
    /\ X.n = Y.n
    /\ \A i \in Idx(X.n), j \in Idx(X.n) : At(X, i, j) = At(Y, i, j)

\* the three vertices lie on one line (or coincide): the cross product of
\* two edge vectors is the zero vector
Collinear(nodes, face) ==
    LET u == VecSub(nodes[face[2]], nodes[face[1]])
        w == VecSub(nodes[face[3]], nodes[face[1]])
    IN  /\ u[2] * w[3] - u[3] * w[2] = 0
        /\ u[3] * w[1] - u[1] * w[3] = 0
        /\ u[1] * w[2] - u[2] * w[1] = 0

\* the sum of Area[f] over the faces f in S
AreaSum(S) == SumSet(S, [f \in S |-> Area[f]])

\* C1: a call with fewer than 5 vertices, whatever its faces, returns the
\* sentinel [-1,-1,-1,-1,-1] normally, and nothing else happens in it: no
\* collaborator is invoked and no weight, neighbour, stiffness, area, mass
\* or solver value is produced.
C1_SmallMeshSentinel ==
    (pc \notin {"idle", "guard"} /\ num_nodes < 5) =>
        /\ pc = "done"
        /\ result = <<R(-1), R(-1), R(-1), R(-1), R(-1)>>
        /\ error = ""
        /\ calls = <<>>
        /\ Unset(W) /\ Unset(V) /\ Unset(A) /\ Unset(D) /\ Unset(P)
        /\ Unset(Q) /\ Unset(B)
        /\ Neighbor = <<>> /\ Area = <<>> /\ Faces_at_Nodes = <<>>
        /\ faces_at_edges = <<>> /\ edges = {}
        /\ ~solver.called

C1_Witness ==
    /\ pc = "done"
    /\ pipeline = "fem"
    /\ num_nodes = 4
    /\ Len(Faces) = 2
    /\ result = Sentinel

\* C2: when a call with at least 5 vertices returns, the eigensolver was
\* called exactly once, with k = 3 on (A, mass matrix), and the value
\* returned has 3 entries, entry k being the reciprocal of the k-th raw
\* eigenvalue in the solver's own order (inf for a raw eigenvalue of 0).
C2_ReciprocalSpectrum ==
    (pc = "done" /\ num_nodes >= 5) =>
        /\ Cardinality({c \in DOMAIN calls : calls[c] = "eigs"}) = 1
        /\ solver.called
        /\ solver.k = 3
        /\ solver.A = A
        /\ solver.M = MassMatrix
        /\ DOMAIN result = 1..3
        /\ DOMAIN solver.returned = 1..3
        /\ \A k \in 1..3 :
              IF solver.returned[k] = Zero
              THEN result[k] = Inf
              ELSE RMul(result[k], solver.returned[k]) = R(1)

C2_Witness ==
    /\ pc = "done"
    /\ pipeline = "geometric"
    /\ num_nodes >= 5
    /\ solver.returned = <<R(2), Norm(-1, 2), R(2)>>
    /\ result = <<Norm(1, 2), R(-2), Norm(1, 2)>>

\* half of the weight the provider supplied for (i, j)
HalfSupplied(i, j) == RDivInt(At(Wsupplied, i, j), 2)

C5_MassMatrixSymmetricOnEdges ==
    (solver.called /\ pipeline = "fem") =>
        \A e \in DirectedEdges(Faces) :
            At(solver.M, e[1], e[2]) = At(solver.M, e[2], e[1])

\* C6: the geometric mass matrix is diagonal with
\* D[i] = (sum of Area over FacesAtVertex[i]) / 3, and the eigensolver gets
\* it as a dense array.
C6_GeometricMassMatrix ==
    /\ ~Unset(D) =>
          \A i \in AllIdx, j \in AllIdx :
              At(D, i, j) = IF i = j
                            THEN RDivInt(AreaSum(Faces_at_Nodes[i]), 3)
                            ELSE Zero
    /\ (solver.called /\ pipeline = "geometric") =>
          /\ solver.M.rep = "dense"
          /\ solver.M = D

C6_Witness ==
    /\ pc = "done"
    /\ pipeline = "geometric"
    /\ solver.called
    /\ solver.M.rep = "dense"
    /\ \E i \in AllIdx : Cardinality(Faces_at_Nodes[i]) >= 2 /\ At(D, i, i) # Zero

\* C7: a degenerate face (collinear or coinciding vertices) makes the area
\* computation fail, so that the area vector never holds an entry for a
\* degenerate face, nor a zero or NaN area.
C7_DegenerateFaceReported ==
    \A f \in DOMAIN Area :
        /\ ~Collinear(Nodes, Faces[f])
        /\ Area[f] # Zero
        /\ Area[f] # NaN

\* the six orderings of a triangle's vertex indices
Orderings(t) ==
    { <<t[1], t[2], t[3]>>, <<t[1], t[3], t[2]>>, <<t[2], t[1], t[3]>>,
      <<t[2], t[3], t[1]>>, <<t[3], t[1], t[2]>>, <<t[3], t[2], t[1]>> }

FrameOfCall ==
    /\ Nodes' = Nodes
    /\ Faces' = Faces
    /\ (Area # <<>> => Area' = Area)
    /\ (~Unset(A) => SameEntries(A, A'))
    /\ (~Unset(D) => SameEntries(D, D'))
    /\ (~Unset(B) => SameEntries(B, B'))

====
